---- MODULE Spec2Model ----
(***************************************************************************)
(* Data-quality check operators of airflow-dq.                             *)
(*                                                                         *)
(* Two implementations of the base operator live side by side:             *)
(*   operators/base_data_quality_operator.py  (method get_sql_value, push  *)
(*       that logs and forwards to message_writer,                         *)
(*       send_failure_notification that raises AirflowException)           *)
(*   plugins/base_data_quality_operator.py    (module functions _get_hook  *)
(*       and get_sql_value, push that is a no-op, send_email_notification) *)
(* The variable impl says which of the two a check instance is built on.   *)
(*                                                                         *)
(* Numbers are fixed-point decimals in thousandths (12345 is 12.345), so   *)
(* that round(x, 2) is a real conversion.                                  *)
(***************************************************************************)
EXTENDS Integers, Sequences, FiniteSets, TLC

VARIABLES
    impl,                 \* "operators" | "plugins"
    connection,           \* conn_id -> conn_type, what BaseHook.get_connection reports
    message_writer,       \* operators/: a message writer is configured
    notification_emails,  \* plugins/: a recipient list is configured
    min_threshold_sql,    \* the lower bound is a query (dynamic) rather than a literal
    max_threshold_sql,    \* the upper bound is a query (dynamic) rather than a literal
    pc,                   \* position of the check: configured, evaluating, built, pushed, completed, failed
    execution,            \* number of execute() calls started so far
    result,               \* local of execute: <<>> or <<measured value>>
    min_threshold,        \* local of execute: <<>> or <<lower bound>>
    max_threshold,        \* local of execute: <<>> or <<upper bound>>
    info_dict,            \* local of execute: <<>> or the ordered record
    effects,              \* what this execute() call did to the outside: log lines, sink calls, raise
    err,                  \* the error this execute() call ended with, or NoError
    returned,             \* <<>> or <<record>>: what this execute() call returned
    calls,                \* the get_sql_value calls of this execute() call, in order
    prev,                 \* sql -> <<>> or <<v>>: the last value any get_sql_value call returned for it
    sql_in,               \* scalar specification: the query text handed to get_sql_value
    conn_in,              \* scalar specification: the conn_id handed to get_sql_value
    records,              \* scalar specification: what hook.get_records answers
    out                   \* scalar specification: the outcome of the call

vars == <<impl, connection, message_writer, notification_emails, min_threshold_sql,
          max_threshold_sql, pc, execution, result, min_threshold, max_threshold,
          info_dict, effects, err, returned, calls, prev, sql_in, conn_in, records, out>>

config == <<impl, connection, message_writer, notification_emails,
            min_threshold_sql, max_threshold_sql>>

scalar == <<sql_in, conn_in, records, out>>

----
\* Bounds of the model.
MaxRows == 2
MaxCols == 2
MaxExecutions == 2

Impls == {"operators", "plugins"}
ConnIds == {"conn_id", "threshold_conn_id"}
ConnTypes == {"postgres", "mysql", "hive", "google_cloud_platform", "sqlite", "ftp"}
Queries == {"sql", "min_threshold_sql", "max_threshold_sql"}

\* Literal thresholds of a check configured with numbers (10 and 15, as in the tests).
LiteralMin == 10 * 1000
LiteralMax == 15 * 1000
\* Values the backend may hold: below, on, inside, on and above the literal bounds.
Values == {LiteralMin - 5, LiteralMin, 12345, LiteralMax, LiteralMax + 5}
\* Cells of the result sets of the scalar specification.
CellValues == {12345, LiteralMin}
Filler == LiteralMax + 777

NoError == [type |-> "", msg |-> <<>>]

SeqsUpTo(S, n) == UNION {[1..k -> S] : k \in 0..n}
Rows == SeqsUpTo(CellValues, MaxCols)
\* Every result set of at most MaxRows rows of at most MaxCols columns each.
ResultSets == SeqsUpTo(Rows, MaxRows)
\* A result set of nrows rows of ncols columns whose first cell is v.
ShapedRecords(nrows, ncols, v) ==
    [i \in 1..nrows |-> [j \in 1..ncols |-> IF i = 1 /\ j = 1 THEN v ELSE Filler]]

----
\* Outcomes of a call: a raise or a return.
Raise(type, msg) ==
    [ok |-> FALSE, value |-> <<>>, err |-> [type |-> type, msg |-> msg]]
Return(v) ==
    [ok |-> TRUE, value |-> <<v>>, err |-> NoError]

\* Mutant: an unknown connection type falls back to a default hook instead of raising.
_get_hook_default(conn_id) ==
    LET conn_type == connection[conn_id] IN
    IF conn_type = "mysql" THEN [ok |-> TRUE, hook |-> "MySqlHook", err |-> NoError]
    ELSE IF conn_type = "hive" THEN [ok |-> TRUE, hook |-> "HiveServer2Hook", err |-> NoError]
    ELSE [ok |-> TRUE, hook |-> "PostgresHook", err |-> NoError]

\* plugins/: _get_hook(conn_id)
_get_hook(conn_id) ==
    LET conn_type == connection[conn_id] IN
    IF conn_type = "postgres" THEN [ok |-> TRUE, hook |-> "PostgresHook", err |-> NoError]
    ELSE IF conn_type = "mysql" THEN [ok |-> TRUE, hook |-> "MySqlHook", err |-> NoError]
    ELSE IF conn_type = "hive" THEN [ok |-> TRUE, hook |-> "HiveServer2Hook", err |-> NoError]
    ELSE [ok |-> FALSE, hook |-> "",
          err |-> [type |-> "ValueError",
                   msg |-> <<"Connection type of", conn_type, "not currently supported">>]]

\* Connection types for which Airflow's own BaseHook.get_hook builds a hook.
AirflowHookTypes == {"postgres", "mysql", "sqlite"}

\* operators/: the hook selection at the head of get_sql_value.
get_hook_operators(conn_id) ==
    LET conn_type == connection[conn_id] IN
    IF conn_type = "google_cloud_platform"
    THEN [ok |-> TRUE, hook |-> "BigQueryHook", err |-> NoError]
    ELSE IF conn_type \in AirflowHookTypes
    THEN [ok |-> TRUE, hook |-> "BaseHook.get_hook", err |-> NoError]
    ELSE [ok |-> FALSE, hook |-> "",
          err |-> [type |-> "AirflowException",
                   msg |-> <<"Unknown hook type", conn_type>>]]

\* Mutant: one test len(result) != 1 with one message for both row-count violations.
check_result_operators_one_message(res) ==
    IF Len(res) # 1
    THEN Raise("ValueError", <<"Result from sql query contains more than 1 entry">>)
    ELSE IF Len(res[1]) # 1
    THEN Raise("ValueError", <<"Result from sql query does not contain exactly 1 column">>)
    ELSE Return(res[1][1])

\* Mutant: the cell is coerced with int() on the way out.
check_result_operators_int(res) ==
    IF Len(res) > 1
    THEN Raise("ValueError", <<"Result from sql query contains more than 1 entry">>)
    ELSE IF Len(res) < 1
    THEN Raise("ValueError", <<"No result returned from sql query">>)
    ELSE IF Len(res[1]) # 1
    THEN Raise("ValueError", <<"Result from sql query does not contain exactly 1 column">>)
    ELSE Return((res[1][1] \div 1000) * 1000)

\* Mutant: an empty result is taken as the value 0 instead of raising.
check_result_operators_empty_is_zero(res) ==
    IF Len(res) > 1
    THEN Raise("ValueError", <<"Result from sql query contains more than 1 entry">>)
    ELSE IF Len(res) < 1
    THEN Return(0)
    ELSE IF Len(res[1]) # 1
    THEN Raise("ValueError", <<"Result from sql query does not contain exactly 1 column">>)
    ELSE Return(res[1][1])

\* The cardinality checks of operators/ get_sql_value: an if / elif chain.
check_result_operators(res) ==
    IF Len(res) > 1
    THEN Raise("ValueError", <<"Result from sql query contains more than 1 entry">>)
    ELSE IF Len(res) < 1
    THEN Raise("ValueError", <<"No result returned from sql query">>)
    ELSE IF Len(res[1]) # 1
    THEN Raise("ValueError", <<"Result from sql query does not contain exactly 1 column">>)
    ELSE Return(res[1][1])

\* Mutant: the cell is rounded to two decimals on the way out.
check_result_plugins_rounded(res) ==
    IF Len(res) > 1
    THEN Raise("ValueError", <<"Result from sql query contains more than 1 entry">>)
    ELSE IF Len(res) < 1
    THEN Raise("ValueError", <<"No result returned from sql query">>)
    ELSE IF Len(res[1]) # 1
    THEN Raise("ValueError", <<"Result from sql query does not contain exactly 1 column">>)
    ELSE Return(((res[1][1] + 5) \div 10) * 10)

\* Mutant: the column count of the first row is tested before the row count.
check_result_plugins_columns_first(res) ==
    IF Len(res) = 0
    THEN Raise("IndexError", <<"list index out of range">>)
    ELSE IF Len(res[1]) # 1
    THEN Raise("ValueError", <<"Result from sql query does not contain exactly 1 column">>)
    ELSE IF Len(res) > 1
    THEN Raise("ValueError", <<"Result from sql query contains more than 1 entry">>)
    ELSE Return(res[1][1])

\* The cardinality checks of plugins/ get_sql_value: three ifs that raise, then the return.
check_result_plugins(res) ==
    IF Len(res) > 1
    THEN Raise("ValueError", <<"Result from sql query contains more than 1 entry">>)
    ELSE IF Len(res) < 1
    THEN Raise("ValueError", <<"No result returned from sql query">>)
    ELSE IF Len(res[1]) # 1
    THEN Raise("ValueError", <<"Result from sql query does not contain exactly 1 column">>)
    ELSE Return(res[1][1])

\* An outcome, with the hook that was built and whether hook.get_records was called.
Call(hook, queried, outcome) ==
    [ok |-> outcome.ok, value |-> outcome.value, err |-> outcome.err,
     hook |-> hook, queried |-> queried]

\* operators/: BaseDataQualityOperator.get_sql_value(conn_id, sql); rows is what
\* hook.get_records(sql) answers if it is called.
get_sql_value_operators(conn_id, sql, rows) ==
    LET h == get_hook_operators(conn_id) IN
    IF ~h.ok THEN Call("", FALSE, [ok |-> FALSE, value |-> <<>>, err |-> h.err])
    ELSE Call(h.hook, TRUE, check_result_operators(rows))

\* plugins/: get_sql_value(conn_id, sql).
get_sql_value_plugins(conn_id, sql, rows) ==
    LET h == _get_hook(conn_id) IN
    IF ~h.ok THEN Call("", FALSE, [ok |-> FALSE, value |-> <<>>, err |-> h.err])
    ELSE Call(h.hook, TRUE, check_result_plugins(rows))

\* Mutant: a value fetched once for a query text is kept and handed out again.
get_sql_value_memo(conn_id, sql, rows) ==
    IF prev[sql] # <<>>
    THEN Call("", FALSE, Return(prev[sql][1]))
    ELSE IF impl = "operators"
    THEN get_sql_value_operators(conn_id, sql, rows)
    ELSE get_sql_value_plugins(conn_id, sql, rows)

\* The get_sql_value of the implementation the check is built on.
get_sql_value(conn_id, sql, rows) ==
    IF impl = "operators"
    THEN get_sql_value_operators(conn_id, sql, rows)
    ELSE get_sql_value_plugins(conn_id, sql, rows)

NoCall == [ok |-> FALSE, value |-> <<>>, err |-> NoError, hook |-> "", queried |-> FALSE]

----
\* The check as configured (constructor arguments that are not modelled as variables).
TaskId == "test"
DagId == "dq_dag"
CheckDescription == "description"
SqlText == "SELECT MIN(value) FROM test;"

\* The connection a query runs on: conn_id for the check's sql, threshold_conn_id
\* for the threshold queries.
ConnOf(q) == IF q = "sql" THEN "conn_id" ELSE "threshold_conn_id"

\* Threshold Evaluator: inclusive on both ends.
within_threshold(m, lo, hi) == lo <= m /\ m <= hi

\* Result Record Builder: the ordered record, seven (key, value) pairs.
build_info_dict(m, lo, hi, when) ==
    << <<"task_id", TaskId>>,
       <<"description", CheckDescription>>,
       <<"execution_date", when>>,
       <<"result", m>>,
       <<"min_threshold", lo>>,
       <<"max_threshold", hi>>,
       <<"within_threshold", within_threshold(m, lo, hi)>> >>

\* info_dict.get(key)
Get(d, key) ==
    IF \E i \in DOMAIN d : d[i][1] = key
    THEN d[CHOOSE i \in DOMAIN d : d[i][1] = key][2]
    ELSE "None"

\* Python's round(x, 2) on a decimal given in thousandths: half to even.
round2(x) ==
    LET q == x \div 10
        r == x % 10
    IN  IF r < 5 THEN q * 10
        ELSE IF r > 5 THEN (q + 1) * 10
        ELSE IF q % 2 = 0 THEN q * 10 ELSE (q + 1) * 10

\* Mutant: the message writer is called for failing records only.
push_operators_failures_only(info_ordereddict) ==
    LET info == [i \in DOMAIN info_ordereddict |->
                    <<info_ordereddict[i][1], ": ", info_ordereddict[i][2]>>]
    IN  <<[kind |-> "log", payload |-> <<DagId, info>>]>>
        \o (IF message_writer /\ ~info_ordereddict[7][2]
            THEN <<[kind |-> "send_message", payload |-> info_ordereddict]>>
            ELSE <<>>)

\* Mutant: the message writer gets the record without its description.
push_operators_dropped_field(info_ordereddict) ==
    LET info == [i \in DOMAIN info_ordereddict |->
                    <<info_ordereddict[i][1], ": ", info_ordereddict[i][2]>>]
    IN  <<[kind |-> "log", payload |-> <<DagId, info>>]>>
        \o (IF message_writer
            THEN <<[kind |-> "send_message",
                    payload |-> <<info_ordereddict[1]>> \o SubSeq(info_ordereddict, 3, 7)]>>
            ELSE <<>>)

\* operators/: push(info_ordereddict): the log line, then the message writer if any.
push_operators(info_ordereddict) ==
    LET info == [i \in DOMAIN info_ordereddict |->
                    <<info_ordereddict[i][1], ": ", info_ordereddict[i][2]>>]
    IN  <<[kind |-> "log", payload |-> <<DagId, info>>]>>
        \o (IF message_writer
            THEN <<[kind |-> "send_message", payload |-> info_ordereddict]>>
            ELSE <<>>)

\* plugins/: push(info_dict): pass.
push_plugins(info) == <<>>

\* push of the implementation the check is built on.
push(info) ==
    IF impl = "operators" THEN push_operators(info) ELSE push_plugins(info)

\* Mutant: the body names the lower threshold twice.
send_failure_notification_min_twice(info) ==
    Raise("AirflowException",
          [task_id |-> TaskId,
           dag_id |-> DagId,
           description |-> Get(info, "description"),
           execution_date |-> Get(info, "execution_date"),
           sql |-> SqlText,
           result |-> round2(Get(info, "result")),
           min_threshold |-> Get(info, "min_threshold"),
           max_threshold |-> Get(info, "min_threshold")])

\* operators/: send_failure_notification(info_dict): formats the body and raises.
send_failure_notification(info) ==
    Raise("AirflowException",
          [task_id |-> TaskId,
           dag_id |-> DagId,
           description |-> Get(info, "description"),
           execution_date |-> Get(info, "execution_date"),
           sql |-> SqlText,
           result |-> round2(Get(info, "result")),
           min_threshold |-> Get(info, "min_threshold"),
           max_threshold |-> Get(info, "max_threshold")])

\* plugins/: send_email_notification(info_dict): one send_email call.
send_email_notification(info) ==
    <<[kind |-> "send_email",
       payload |-> [to |-> notification_emails,
                    subject |-> <<"Data Quality Check:", Get(info, "task_id"), "failed">>,
                    html_content |->
                        [task_id |-> Get(info, "task_id"),
                         dag_id |-> DagId,
                         description |-> Get(info, "description"),
                         execution_date |-> Get(info, "execution_date"),
                         sql |-> SqlText,
                         result |-> round2(Get(info, "result")),
                         min_threshold |-> Get(info, "min_threshold"),
                         max_threshold |-> Get(info, "max_threshold")]]]>>

----
\* Connection types the execution specification draws from: one both implementations
\* support, one only operators/ supports, one neither supports.
ExecConnTypes == {"postgres", "google_cloud_platform", "ftp"}

NoPrev == [q \in Queries |-> <<>>]

\* The state after construction: the check is Configured and has not run.
Init ==
    /\ impl \in Impls
    /\ connection \in [ConnIds -> ExecConnTypes]
    /\ message_writer \in BOOLEAN
    /\ notification_emails \in BOOLEAN
    /\ impl = "operators" => ~notification_emails
    /\ impl = "plugins" => ~message_writer
    /\ min_threshold_sql \in BOOLEAN
    /\ max_threshold_sql \in BOOLEAN
    /\ (~min_threshold_sql /\ ~max_threshold_sql) => connection["threshold_conn_id"] = connection["conn_id"]
    /\ pc = "configured"
    /\ execution = 0
    /\ result = <<>>
    /\ min_threshold = <<>>
    /\ max_threshold = <<>>
    /\ info_dict = <<>>
    /\ effects = <<>>
    /\ err = NoError
    /\ returned = <<>>
    /\ calls = <<>>
    /\ prev = NoPrev
    /\ sql_in = "sql"
    /\ conn_in = "conn_id"
    /\ records = <<>>
    /\ out = NoCall

\* execute(context) is entered: a first run, or a re-invocation after the previous
\* run completed or failed. Literal thresholds are the configured numbers.
Execute ==
    /\ pc \in {"configured", "completed", "failed"}
    /\ execution < MaxExecutions
    /\ execution' = execution + 1
    /\ pc' = "evaluating"
    /\ result' = <<>>
    /\ min_threshold' = IF min_threshold_sql THEN <<>> ELSE <<LiteralMin>>
    /\ max_threshold' = IF max_threshold_sql THEN <<>> ELSE <<LiteralMax>>
    /\ info_dict' = <<>>
    /\ effects' = <<>>
    /\ err' = NoError
    /\ returned' = <<>>
    /\ calls' = <<>>
    /\ UNCHANGED <<config, prev, scalar>>

\* One get_sql_value call of execute, for query q, the backend answering rows.
\* A raise ends execute; a return leaves the value in c.value.
Query(q, rows) ==
    LET c == get_sql_value(ConnOf(q), q, rows) IN
    /\ calls' = Append(calls, [sql |-> q,
                               rows |-> IF c.queried THEN <<rows>> ELSE <<>>,
                               out |-> c])
    /\ prev' = IF c.ok THEN [prev EXCEPT ![q] = c.value] ELSE prev
    /\ result' = IF c.ok /\ q = "sql" THEN c.value ELSE result
    /\ min_threshold' = IF c.ok /\ q = "min_threshold_sql" THEN c.value ELSE min_threshold
    /\ max_threshold' = IF c.ok /\ q = "max_threshold_sql" THEN c.value ELSE max_threshold
    /\ pc' = IF c.ok THEN pc ELSE "failed"
    /\ err' = IF c.ok THEN err ELSE c.err
    /\ UNCHANGED <<config, execution, info_dict, effects, returned, scalar>>

\* The primary query: the measured value.
QueryPrimary ==
    /\ pc = "evaluating"
    /\ result = <<>>
    /\ \E nrows \in 0..MaxRows, ncols \in 0..MaxCols, v \in Values :
            Query("sql", ShapedRecords(nrows, ncols, v))

\* A dynamic lower bound, after the primary query.
QueryMinThreshold ==
    /\ pc = "evaluating"
    /\ result # <<>>
    /\ min_threshold = <<>>
    /\ \E nrows \in 0..MaxRows, ncols \in 0..MaxCols, v \in Values :
            Query("min_threshold_sql", ShapedRecords(nrows, ncols, v))

\* A dynamic upper bound, after the primary query; no order between the two bounds.
QueryMaxThreshold ==
    /\ pc = "evaluating"
    /\ result # <<>>
    /\ max_threshold = <<>>
    /\ \E nrows \in 0..MaxRows, ncols \in 0..MaxCols, v \in Values :
            Query("max_threshold_sql", ShapedRecords(nrows, ncols, v))

\* The record execute builds once the value and both bounds are known.
Built == build_info_dict(result[1], min_threshold[1], max_threshold[1], execution)

Resolved ==
    /\ pc = "evaluating"
    /\ result # <<>>
    /\ min_threshold # <<>>
    /\ max_threshold # <<>>

\* The tail of execute for a record inside its thresholds: push, then return.
ReturnPassed ==
    /\ Resolved
    /\ Get(Built, "within_threshold")
    /\ info_dict' = Built
    /\ effects' = effects \o push(Built)
    /\ returned' = <<Built>>
    /\ pc' = "completed"
    /\ UNCHANGED <<config, execution, result, min_threshold, max_threshold, err,
                   calls, prev, scalar>>

\* operators/, a record outside its thresholds: push, then send_failure_notification
\* raises.
RaiseFailed ==
    /\ Resolved
    /\ impl = "operators"
    /\ ~Get(Built, "within_threshold")
    /\ info_dict' = Built
    /\ effects' = effects \o push(Built)
    /\ err' = send_failure_notification(Built).err
    /\ pc' = "failed"
    /\ UNCHANGED <<config, execution, result, min_threshold, max_threshold, returned,
                   calls, prev, scalar>>

\* operators/, a record outside its thresholds with a message writer configured:
\* the writer absorbs the failure and execute returns the record.
ReturnAbsorbed ==
    /\ Resolved
    /\ impl = "operators"
    /\ message_writer
    /\ ~Get(Built, "within_threshold")
    /\ info_dict' = Built
    /\ effects' = effects \o push(Built)
    /\ returned' = <<Built>>
    /\ pc' = "completed"
    /\ UNCHANGED <<config, execution, result, min_threshold, max_threshold, err,
                   calls, prev, scalar>>

\* plugins/, a record outside its thresholds: push, the email if recipients are
\* configured, and execute returns the record (the tests read within_threshold off it).
ReturnFailed ==
    /\ Resolved
    /\ impl = "plugins"
    /\ ~Get(Built, "within_threshold")
    /\ info_dict' = Built
    /\ effects' = effects \o push(Built)
                   \o (IF notification_emails THEN send_email_notification(Built) ELSE <<>>)
    /\ returned' = <<Built>>
    /\ pc' = "completed"
    /\ UNCHANGED <<config, execution, result, min_threshold, max_threshold, err,
                   calls, prev, scalar>>

Next ==
    \/ Execute
    \/ QueryPrimary
    \/ QueryMinThreshold
    \/ QueryMaxThreshold
    \/ ReturnPassed
    \/ RaiseFailed
    \/ ReturnAbsorbed
    \/ ReturnFailed

Spec == Init /\ [][Next]_vars

----
\* get_sql_value on its own: one call on every implementation, connection type,
\* query and result set.
ScalarInit ==
    /\ impl \in Impls
    /\ \E k \in ConnTypes : connection = [c \in ConnIds |-> k]
    /\ message_writer = FALSE
    /\ notification_emails = FALSE
    /\ min_threshold_sql = TRUE
    /\ max_threshold_sql = TRUE
    /\ pc = "call"
    /\ execution = 0
    /\ result = <<>>
    /\ min_threshold = <<>>
    /\ max_threshold = <<>>
    /\ info_dict = <<>>
    /\ effects = <<>>
    /\ err = NoError
    /\ returned = <<>>
    /\ calls = <<>>
    /\ prev = NoPrev
    /\ sql_in \in Queries
    /\ conn_in = ConnOf(sql_in)
    /\ records \in ResultSets
    /\ out = NoCall

ScalarCall ==
    /\ pc = "call"
    /\ out' = get_sql_value(conn_in, sql_in, records)
    /\ pc' = "returned"
    /\ UNCHANGED <<config, execution, result, min_threshold, max_threshold, info_dict,
                   effects, err, returned, calls, prev, sql_in, conn_in, records>>

ScalarNext == ScalarCall

ScalarSpec == ScalarInit /\ [][ScalarNext]_vars

----
\* Helpers of the properties.
Range(f) == {f[i] : i \in DOMAIN f}
Keys(d) == [i \in DOMAIN d |-> d[i][1]]
SevenKeys ==
    <<"task_id", "description", "execution_date", "result",
      "min_threshold", "max_threshold", "within_threshold">>
EffectsOf(kind) == {i \in DOMAIN effects : effects[i].kind = kind}

\* Which cardinality rule a result set breaks, by the wording of the contract.
Violation(r) ==
    IF Len(r) = 0 THEN "zero_rows"
    ELSE IF Len(r) > 1 THEN "many_rows"
    ELSE IF Len(r[1]) # 1 THEN "wrong_columns"
    ELSE "none"

ScalarDone == pc = "returned" /\ out.queried

\* Result sets of every shape within the bounds, to compare an outcome with.
Shapes ==
    {ShapedRecords(n, k, v) : n \in 0..MaxRows, k \in 0..MaxCols, v \in CellValues}

\* C1 as stated: a result of zero rows, of more than one row, or of one row with a
\* column count other than one makes get_sql_value fail, and results that break
\* different rules fail with errors of different kinds (exception types).
C1_DistinctErrorKinds ==
    (ScalarDone /\ Violation(records) # "none") =>
        /\ ~out.ok
        /\ \A r \in Shapes :
              (Violation(r) \notin {"none", Violation(records)}) =>
                  get_sql_value(conn_in, sql_in, r).err.type # out.err.type

\* C1 amended: the three violations all fail, all with the one kind ValueError, and
\* the message text alone tells them apart: two results carry the same message
\* exactly when they break the same rule.
C1_DistinctMessages ==
    (ScalarDone /\ Violation(records) # "none") =>
        /\ ~out.ok
        /\ out.value = <<>>
        /\ out.err.type = "ValueError"
        /\ \A r \in Shapes :
              Violation(r) # "none" =>
                  /\ get_sql_value(conn_in, sql_in, r).err.type = "ValueError"
                  /\ (get_sql_value(conn_in, sql_in, r).err.msg = out.err.msg)
                        <=> (Violation(r) = Violation(records))

C1_Witness ==
    /\ ScalarDone
    /\ Violation(records) = "wrong_columns"
    /\ out.err.msg = <<"Result from sql query does not contain exactly 1 column">>

\* C2: a result of exactly one row of exactly one column makes get_sql_value return,
\* without error, exactly the value of that cell, for the check's sql and for the
\* threshold queries alike.
C2_ReturnsCellUnchanged ==
    (ScalarDone /\ Len(records) = 1 /\ Len(records[1]) = 1) =>
        /\ out.ok
        /\ out.err = NoError
        /\ out.value = <<records[1][1]>>

C2_Witness ==
    /\ ScalarDone
    /\ sql_in = "min_threshold_sql"
    /\ records = <<<<12345>>>>
    /\ out.value = <<12345>>

\* C10: both implementations look at the row count before any column count: more
\* than one row is the 'more than 1 entry' error whatever the rows hold, no row is
\* the 'No result returned' error (never an index error on the first row), the
\* column error comes only from results of one row, and the two implementations
\* agree on every result.
C10_RowCountFirst ==
    ScalarDone =>
        LET o == check_result_operators(records)
            p == check_result_plugins(records)
        IN  /\ o = p
            /\ out.ok = o.ok /\ out.value = o.value /\ out.err = o.err
            /\ Len(records) > 1 =>
                  out.err = [type |-> "ValueError",
                             msg |-> <<"Result from sql query contains more than 1 entry">>]
            /\ Len(records) = 0 =>
                  out.err = [type |-> "ValueError",
                             msg |-> <<"No result returned from sql query">>]
            /\ (out.err.msg = <<"Result from sql query does not contain exactly 1 column">>)
                  => Len(records) = 1

C10_Witness ==
    /\ ScalarDone
    /\ impl = "plugins"
    /\ Len(records) = 2
    /\ Len(records[1]) = 2
    /\ Len(records[2]) = 0
    /\ out.err.msg = <<"Result from sql query contains more than 1 entry">>

----
\* Properties of one execute() call.
Dispatched == info_dict # <<>>
Within == Get(info_dict, "within_threshold")
CallsFor(q) == {i \in DOMAIN calls : calls[i].sql = q}
\* The cell the backend answered, during this execute() call, to query q.
BackendCell(q) == calls[CHOOSE i \in CallsFor(q) : TRUE].rows[1][1][1]
\* The connection types an implementation builds a hook for.
SupportedTypes ==
    IF impl = "plugins"
    THEN {"postgres", "mysql", "hive"}
    ELSE {"google_cloud_platform"} \cup AirflowHookTypes
Unsupported(conn_id) == connection[conn_id] \notin SupportedTypes

\* C3: the record execute returns has within_threshold = TRUE exactly when
\* lo <= m <= hi, for m the value the backend answered and lo, hi the literal bounds
\* or the values the backend answered to the threshold queries; m = lo and m = hi
\* give TRUE, m < lo and m > hi give FALSE.
C3_InclusiveThreshold ==
    returned # <<>> =>
        LET m == BackendCell("sql")
            lo == IF min_threshold_sql THEN BackendCell("min_threshold_sql") ELSE LiteralMin
            hi == IF max_threshold_sql THEN BackendCell("max_threshold_sql") ELSE LiteralMax
            w == Get(returned[1], "within_threshold")
        IN  /\ w = (lo <= m /\ m <= hi)
            /\ (m = lo /\ m <= hi) => w
            /\ (m = hi /\ lo <= m) => w
            /\ (m < lo \/ m > hi) => ~w

C3_Witness ==
    /\ returned # <<>>
    /\ min_threshold_sql /\ max_threshold_sql
    /\ result = min_threshold
    /\ result[1] < max_threshold[1]
    /\ Get(returned[1], "within_threshold")

\* What the claim asks of the failure message.
MessageCarriesContext ==
    /\ err.type = "AirflowException"
    /\ err.msg.task_id = TaskId
    /\ err.msg.description = CheckDescription
    /\ err.msg.sql = SqlText
    /\ err.msg.execution_date = execution
    /\ err.msg.result = round2(result[1])
    /\ err.msg.min_threshold = min_threshold[1]
    /\ err.msg.max_threshold = max_threshold[1]

C5_SevenOrderedFields ==
    /\ returned # <<>> =>
          /\ Len(returned[1]) = 7
          /\ Keys(returned[1]) = SevenKeys
          /\ Get(returned[1], "within_threshold") \in BOOLEAN
    /\ \A i \in EffectsOf("send_message") : Keys(effects[i].payload) = SevenKeys
    /\ \A i \in EffectsOf("log") : Keys(effects[i].payload[2]) = SevenKeys

C5_Witness ==
    /\ returned # <<>>
    /\ ~Get(returned[1], "within_threshold")
    /\ min_threshold_sql
    /\ message_writer
    /\ Len(returned[1]) = 7
    /\ EffectsOf("send_message") # {}

C7_PassOnlyLogs ==
    Dispatched =>
        /\ EffectsOf("log") # {}
        /\ Within => \A i \in DOMAIN effects : effects[i].kind = "log"

\* C7 amended: operators/ push logs the record on every dispatch and, when a
\* message writer is configured, also sends it the record on every dispatch,
\* passed or failed; without one the log is its only effect. plugins/ push does
\* nothing (no log, no sink). A passing check sends no email and raises nothing.
C7_PushLogsAndForwards ==
    Dispatched =>
        /\ impl = "operators" =>
              /\ Len(effects) = (IF message_writer THEN 2 ELSE 1)
              /\ effects[1].kind = "log"
              /\ effects[1].payload[1] = DagId
              /\ [i \in 1..7 |-> <<effects[1].payload[2][i][1], effects[1].payload[2][i][3]>>]
                    = info_dict
              /\ message_writer =>
                    effects[2] = [kind |-> "send_message", payload |-> info_dict]
        /\ impl = "plugins" =>
              /\ EffectsOf("log") = {}
              /\ EffectsOf("send_message") = {}
        /\ Within =>
              /\ EffectsOf("send_email") = {}
              /\ err = NoError
              /\ returned = <<info_dict>>

C7_Witness ==
    /\ Dispatched /\ Within
    /\ impl = "operators"
    /\ message_writer
    /\ Len(effects) = 2
    /\ effects[2].kind = "send_message"

\* C8: a record is built, logged, sent or returned only after the primary query
\* and every dynamic threshold query succeeded: a call that fails (no hook, or a
\* result that breaks a cardinality rule) is the last call, execute ends failed
\* with that call's error, and nothing was built, logged, sent or returned,
\* whichever threshold query ran first.
C8_NoRecordAfterFailedQuery ==
    /\ \A i \in DOMAIN calls :
          (\/ ~calls[i].out.queried
           \/ Violation(calls[i].rows[1]) # "none") =>
              /\ i = Len(calls)
              /\ pc = "failed"
              /\ err = calls[i].out.err
              /\ err # NoError
              /\ info_dict = <<>>
              /\ effects = <<>>
              /\ returned = <<>>
    /\ (info_dict # <<>> \/ effects # <<>> \/ returned # <<>>) =>
          /\ \E i \in CallsFor("sql") : calls[i].out.ok
          /\ min_threshold_sql => \E i \in CallsFor("min_threshold_sql") : calls[i].out.ok
          /\ max_threshold_sql => \E i \in CallsFor("max_threshold_sql") : calls[i].out.ok

C8_Witness ==
    /\ pc = "failed"
    /\ Len(calls) = 3
    /\ calls[2].sql = "max_threshold_sql"
    /\ calls[2].out.ok
    /\ calls[3].sql = "min_threshold_sql"
    /\ Violation(calls[3].rows[1]) = "zero_rows"
    /\ info_dict = <<>>

\* C9: nothing is memoized across execute() calls: every value an execute() call
\* holds came from a get_sql_value call of that same execute() call, which built a
\* hook and ran the query, and is the cell the backend answered then; a call that
\* returns a record has run the primary query and every dynamic threshold query.
C9_NoMemoization ==
    /\ \A i \in DOMAIN calls :
          calls[i].out.ok =>
              /\ calls[i].out.queried
              /\ calls[i].out.hook # ""
              /\ calls[i].rows # <<>>
              /\ calls[i].out.value = <<calls[i].rows[1][1][1]>>
    /\ result # <<>> =>
          \E i \in CallsFor("sql") : calls[i].out.value = result
    /\ (min_threshold_sql /\ min_threshold # <<>>) =>
          \E i \in CallsFor("min_threshold_sql") : calls[i].out.value = min_threshold
    /\ (max_threshold_sql /\ max_threshold # <<>>) =>
          \E i \in CallsFor("max_threshold_sql") : calls[i].out.value = max_threshold
    /\ returned # <<>> =>
          /\ Len(calls) = 1 + (IF min_threshold_sql THEN 1 ELSE 0)
                             + (IF max_threshold_sql THEN 1 ELSE 0)
          /\ Get(returned[1], "result") = BackendCell("sql")
          /\ Get(returned[1], "execution_date") = execution

C9_Witness ==
    /\ execution = 2
    /\ returned # <<>>
    /\ Len(calls) = 3
    /\ \A i \in DOMAIN calls : calls[i].out.queried
    /\ Get(returned[1], "result") = LiteralMax + 5

====
